---- MODULE Spec2Model ----
(***************************************************************************)
(* A model of the tree search of the LimboAI behaviour-tree editor         *)
(* (editor/tree_search.h, editor/tree_search.cpp): TreeSearch keeps a      *)
(* linearised copy of a Tree's items, matches their text against the text  *)
(* of a TreeSearchPanel, counts matches per subtree, installs custom draw  *)
(* callbacks on the counted items, hides items in filter mode and moves    *)
(* the selection from match to match.                                      *)
(*                                                                         *)
(* Strings are sequences of one-character strings, with 0-based offsets    *)
(* as in the source.  TreeItem pointers are the integers 1..NumNodes, a    *)
(* pointer's value being its address, so that Vector::sort and             *)
(* Vector::bsearch order items the way the program does; 0 is the null     *)
(* pointer.                                                                *)
(***************************************************************************)
EXTENDS Integers, Sequences, FiniteSets, TLC

VARIABLES
    \* --- Tree / TreeItem (the host widget the search works on) ---
    tree_root,              \* Tree::get_root(): an item, or NoItem
    tree_children,          \* item -> the sequence of its children, in child order
    text,                   \* item -> TreeItem::get_text(0)
    visible,                \* item -> TreeItem::is_visible()
    cell_mode,              \* item -> TreeItem::get_cell_mode(0)
    custom_draw_callback,   \* item -> TreeItem::get_custom_draw_callback(0)
    collapsed,              \* item -> TreeItem::is_collapsed()
    selected,               \* Tree::get_selected(): an item, or NoItem
    scrolled_to,            \* the item of the last Tree::scroll_to_item, or NoItem
    \* --- TreeSearch ---
    tree_reference,
    ordered_tree_items,
    matching_entries,
    number_matches,
    callable_cache,
    was_searched_recently,
    was_filtered_recently,
    \* --- the last call of update_search (bookkeeping, not program state) ---
    last_call,              \* "none", or the branch it took: "inactive" or "active"
                            \* (another operation since then leaves its own name here)
    search_mask,            \* the text it read from the panel (empty on the inactive branch)
    search_mode,            \* the mode it read from the panel (HIGHLIGHT on the inactive branch)
    repeated,               \* whether it repeated the call before it, nothing between them
    hidden_before,          \* whether an item was hidden when it began
    dropped_keys,           \* the keys its _clean_callable_cache dropped from callable_cache
    select_log,             \* when kept (on): the selection it found (start) and the items
                            \* _select_item selected since (picks), as many as it matched
    \* --- a call of _substring_bounds on its own ---
    sb_searchable,
    sb_search_mask,
    sb_result,
    sb_returned             \* whether the call has returned

treeVars == <<tree_root, tree_children, text, visible, cell_mode, custom_draw_callback,
              collapsed, selected, scrolled_to>>
searchVars == <<tree_reference, ordered_tree_items, matching_entries, number_matches,
                callable_cache, was_searched_recently, was_filtered_recently>>
callVars == <<last_call, search_mask, search_mode, repeated, hidden_before, dropped_keys,
              select_log>>
sbVars == <<sb_searchable, sb_search_mask, sb_result, sb_returned>>
vars == <<treeVars, searchVars, callVars, sbVars>>

(***************************************************************************)
(* Bounds of the model.                                                    *)
(***************************************************************************)
NumNodes == 3
MaxLabelLen == 3
MaxMaskLen == 4
MaxLayers == 2

(***************************************************************************)
(* String: the operations of the engine's String that the search calls.    *)
(***************************************************************************)
UPPER_BOUND == 32768

UpperCase == <<"A", "B", "C", "D", "E", "F", "G", "H", "I", "J", "K", "L", "M",
               "N", "O", "P", "Q", "R", "S", "T", "U", "V", "W", "X", "Y", "Z">>
LowerCase == <<"a", "b", "c", "d", "e", "f", "g", "h", "i", "j", "k", "l", "m",
               "n", "o", "p", "q", "r", "s", "t", "u", "v", "w", "x", "y", "z">>

to_lower_char(c) ==
    LET at == {i \in DOMAIN UpperCase : UpperCase[i] = c}
    IN  IF at = {} THEN c ELSE LowerCase[CHOOSE i \in at : TRUE]

\* String::to_lower(): every character lowered, the length kept.
to_lower(s) == [i \in 1..Len(s) |-> to_lower_char(s[i])]

\* Whether `what` stands in `s` at 0-based offset `at`.
occurs_at(s, what, at) ==
    /\ at >= 0
    /\ at + Len(what) <= Len(s)
    /\ \A j \in 1..Len(what) : s[at + j] = what[j]

\* String::find(what, from): the first offset >= from where `what` stands, or -1;
\* -1 as well for a negative from, an empty `what` or an empty string.
find(s, what, from) ==
    IF from < 0 \/ Len(what) = 0 \/ Len(s) = 0 THEN -1
    ELSE LET hits == {i \in from..(Len(s) - Len(what)) : occurs_at(s, what, i)}
         IN IF hits = {} THEN -1
            ELSE CHOOSE i \in hits : \A k \in hits : i <= k

\* String::split(" "): the pieces between the spaces, empty pieces kept.
RECURSIVE split_from(_, _, _)
split_from(s, i, piece) ==
    IF i > Len(s) THEN <<piece>>
    ELSE IF s[i] = " " THEN <<piece>> \o split_from(s, i + 1, <<>>)
    ELSE split_from(s, i + 1, Append(piece, s[i]))

split(s) == split_from(s, 1, <<>>)

MIN(a, b) == IF a < b THEN a ELSE b
MAX(a, b) == IF a > b THEN a ELSE b

(***************************************************************************)
(* TreeSearch::StringSearchIndices and TreeSearch::_substring_bounds.      *)
(***************************************************************************)
StringSearchIndices == [lower |-> -1, upper |-> -1]

hit(r) == 0 <= r.lower /\ r.lower < r.upper

is_case_insensitive_always(p_search_mask) == TRUE

\* bool is_case_insensitive = (p_search_mask == p_search_mask.to_lower());
is_case_insensitive(p_search_mask) == p_search_mask = to_lower(p_search_mask)

\* word_position = searchable_processed.find(word_processed, word_position);
find_word(searchable_processed, word_processed, word_position) ==
    find(searchable_processed, word_processed, word_position)

update_bounds_lower_reset(result, word_position, word) ==
    [lower |-> word_position,
     upper |-> MAX(result.upper, word_position + Len(word))]

\* result.lower = MIN(result.lower, word_position);
\* result.upper = MAX(result.upper, word_position + word.length());
update_bounds(result, word_position, word) ==
    [lower |-> MIN(result.lower, word_position),
     upper |-> MAX(result.upper, word_position + Len(word))]

\* The loop over the words, from the i-th word on.
RECURSIVE words_loop(_, _, _, _, _, _)
words_loop(searchable_processed, words, insensitive, i, word_position, result) ==
    IF i > Len(words) THEN result
    ELSE IF Len(words[i]) = 0
    THEN words_loop(searchable_processed, words, insensitive, i + 1, word_position, result)
    ELSE LET word_processed == IF insensitive THEN to_lower(words[i]) ELSE words[i]
             pos == find_word(searchable_processed, word_processed, word_position)
         IN  IF pos < 0 THEN StringSearchIndices
             ELSE words_loop(searchable_processed, words, insensitive, i + 1, pos,
                             update_bounds(result, pos, words[i]))

_substring_bounds_bounds_swapped(p_searchable, p_search_mask) ==
    LET result == [lower |-> 0, upper |-> UPPER_BOUND]
    IN  IF Len(p_search_mask) = 0 THEN result
        ELSE LET insensitive == is_case_insensitive(p_search_mask)
                 searchable_processed ==
                     IF insensitive THEN to_lower(p_searchable) ELSE p_searchable
             IN  words_loop(searchable_processed, split(p_search_mask), insensitive,
                            1, 0, result)

_substring_bounds(p_searchable, p_search_mask) ==
    LET result == [lower |-> UPPER_BOUND, upper |-> 0]
    IN  IF Len(p_search_mask) = 0 THEN result
        ELSE LET insensitive == is_case_insensitive(p_search_mask)
                 searchable_processed ==
                     IF insensitive THEN to_lower(p_searchable) ELSE p_searchable
             IN  words_loop(searchable_processed, split(p_search_mask), insensitive,
                            1, 0, result)

(***************************************************************************)
(* Tree and TreeItem: the part of the host widget the search reads.        *)
(***************************************************************************)
Nodes == 1..NumNodes
NoItem == 0
NoTree == "null"
TheTree == "tree"

CELL_MODE_STRING == "CELL_MODE_STRING"
CELL_MODE_CUSTOM == "CELL_MODE_CUSTOM"

\* A Callable is the sequence of the draw methods it ends up calling, the
\* innermost first: the null Callable, the host's own draw callback, and
\* callable_mp(this, &TreeSearch::_draw_highlight_item).bind(parent), which calls
\* parent and then draws the highlight.
NullCallable == <<>>
HostDrawCallback == <<"host_draw">>
bind_draw_highlight_item(p_parent_draw_method) ==
    Append(p_parent_draw_method, "_draw_highlight_item")

\* TreeItem::get_parent()
get_parent(item) ==
    LET parents == {p \in Nodes : \E i \in DOMAIN tree_children[p] : tree_children[p][i] = item}
    IN  IF parents = {} THEN NoItem ELSE CHOOSE p \in parents : TRUE

\* Vector::sort(): ascending, by pointer value.
sort(p_vec) == SortSeq(p_vec, LAMBDA a, b : a < b)

\* Vector::bsearch(value, true): the bisection the engine runs, 0-based.
RECURSIVE bisect(_, _, _, _)
bisect(p_vec, value, lo, hi) ==
    IF lo < hi
    THEN LET mid == (lo + hi) \div 2
         IN  IF p_vec[mid + 1] < value
             THEN bisect(p_vec, value, mid + 1, hi)
             ELSE bisect(p_vec, value, lo, mid)
    ELSE lo

_vector_has_bsearch(p_vec, element) ==
    LET idx == bisect(p_vec, element, 0, Len(p_vec))
        in_array == idx >= 0 /\ idx < Len(p_vec)
    IN  in_array /\ p_vec[idx + 1] = element

(***************************************************************************)
(* TreeSearch: the steps of update_search.                                 *)
(***************************************************************************)
\* The recursion of _update_ordered_tree_items: the item, then each child's items.
RECURSIVE collect_items(_)
RECURSIVE collect_children(_, _)
collect_items(p_tree_item) ==
    <<p_tree_item>> \o collect_children(tree_children[p_tree_item], 1)

collect_children(kids, i) ==
    IF i > Len(kids) THEN <<>>
    ELSE collect_items(kids[i]) \o collect_children(kids, i + 1)

\* Called on the root: the list is cleared, filled and sorted.
_update_ordered_tree_items(p_tree_item, old_items) ==
    IF p_tree_item = NoItem THEN old_items
    ELSE sort(collect_items(p_tree_item))

\* The recursion of _find_matching_entries below the root's sort.
RECURSIVE find_matching(_, _)
RECURSIVE find_matching_children(_, _, _)
find_matching(p_tree_item, p_search_mask) ==
    (IF hit(_substring_bounds(text[p_tree_item], p_search_mask))
     THEN <<p_tree_item>> ELSE <<>>)
    \o find_matching_children(tree_children[p_tree_item], 1, p_search_mask)

find_matching_children(kids, i, p_search_mask) ==
    IF i > Len(kids) THEN <<>>
    ELSE find_matching(kids[i], p_search_mask)
         \o find_matching_children(kids, i + 1, p_search_mask)

\* _update_matching_entries: _find_matching_entries from the root into accum.
_update_matching_entries(p_search_mask) ==
    IF tree_root = NoItem THEN <<>>
    ELSE sort(find_matching(tree_root, p_search_mask))

count_ancestors_item_only(counts, item) ==
    IF item = NoItem THEN counts
    ELSE LET previous_match_cnt == IF item \in DOMAIN counts THEN counts[item] ELSE 0
         IN  (item :> previous_match_cnt + 1) @@ counts

\* while (item) { number_matches[item] = previous_match_cnt + 1; item = parent; }
RECURSIVE count_ancestors(_, _)
count_ancestors(counts, item) ==
    IF item = NoItem THEN counts
    ELSE LET previous_match_cnt == IF item \in DOMAIN counts THEN counts[item] ELSE 0
         IN  count_ancestors((item :> previous_match_cnt + 1) @@ counts, get_parent(item))

RECURSIVE number_matches_loop(_, _, _)
number_matches_loop(entries, i, counts) ==
    IF i > Len(entries) THEN counts
    ELSE number_matches_loop(entries, i + 1, count_ancestors(counts, entries[i]))

_update_number_matches(entries) == number_matches_loop(entries, 1, <<>>)

\* _clear_filter: breadth first from the root, every item visited is shown.
RECURSIVE clear_filter_loop(_, _, _)
clear_filter_loop(items, idx, vis) ==
    IF idx > Len(items) THEN vis
    ELSE LET cur_item == items[idx]
         IN  clear_filter_loop(items \o tree_children[cur_item], idx + 1,
                               [vis EXCEPT ![cur_item] = TRUE])

_clear_filter_root_only(vis) == [vis EXCEPT ![tree_root] = TRUE]

_clear_filter(vis) == clear_filter_loop(<<tree_root>>, 1, vis)

\* The draw state of the items and the cache, as _highlight_tree_item reads and
\* writes them: st = [mode, callback, cache].
_highlight_tree_item_uncached(st, counts, p_tree_item) ==
    LET num_m == IF p_tree_item \in DOMAIN counts THEN counts[p_tree_item] ELSE 0
        parent_draw_method ==
            IF st.mode[p_tree_item] = CELL_MODE_CUSTOM
            THEN st.callback[p_tree_item] ELSE NullCallable
        draw_callback == bind_draw_highlight_item(parent_draw_method)
    IN  IF num_m = 0 THEN st
        ELSE [mode |-> [st.mode EXCEPT ![p_tree_item] = CELL_MODE_CUSTOM],
              callback |-> [st.callback EXCEPT ![p_tree_item] = draw_callback],
              cache |-> (p_tree_item :> draw_callback) @@ st.cache]

_highlight_tree_item_trusts_cache(st, counts, p_tree_item) ==
    LET num_m == IF p_tree_item \in DOMAIN counts THEN counts[p_tree_item] ELSE 0
        parent_draw_method ==
            IF st.mode[p_tree_item] = CELL_MODE_CUSTOM
            THEN st.callback[p_tree_item] ELSE NullCallable
        draw_callback == bind_draw_highlight_item(parent_draw_method)
    IN  IF num_m = 0 THEN st
        ELSE IF p_tree_item \in DOMAIN st.cache
        THEN st
        ELSE [mode |-> [st.mode EXCEPT ![p_tree_item] = CELL_MODE_CUSTOM],
              callback |-> [st.callback EXCEPT ![p_tree_item] = draw_callback],
              cache |-> (p_tree_item :> draw_callback) @@ st.cache]

_highlight_tree_item(st, counts, p_tree_item) ==
    LET num_m == IF p_tree_item \in DOMAIN counts THEN counts[p_tree_item] ELSE 0
        parent_draw_method ==
            IF st.mode[p_tree_item] = CELL_MODE_CUSTOM
            THEN st.callback[p_tree_item] ELSE NullCallable
        draw_callback == bind_draw_highlight_item(parent_draw_method)
    IN  IF num_m = 0 THEN st
        ELSE IF /\ p_tree_item \in DOMAIN st.cache
                /\ parent_draw_method = st.cache[p_tree_item]
        THEN st
        ELSE [mode |-> [st.mode EXCEPT ![p_tree_item] = CELL_MODE_CUSTOM],
              callback |-> [st.callback EXCEPT ![p_tree_item] = draw_callback],
              cache |-> (p_tree_item :> draw_callback) @@ st.cache]

RECURSIVE highlight_loop(_, _, _, _)
highlight_loop(st, items, counts, i) ==
    IF i > Len(items) THEN st
    ELSE highlight_loop(_highlight_tree_item(st, counts, items[i]), items, counts, i + 1)

_highlight_tree(st, items, counts) == highlight_loop(st, items, counts, 1)

\* while (first_counting_ancestor && !number_matches.has(first_counting_ancestor))
RECURSIVE first_counting_ancestor(_, _)
first_counting_ancestor(item, counts) ==
    IF item # NoItem /\ item \notin DOMAIN counts
    THEN first_counting_ancestor(get_parent(item), counts)
    ELSE item

RECURSIVE filter_loop_no_continue(_, _, _, _, _)
filter_loop_no_continue(vis, items, entries, counts, i) ==
    IF i > Len(items) THEN vis
    ELSE LET cur_item == items[i]
             fca == first_counting_ancestor(cur_item, counts)
         IN  IF fca = NoItem \/ ~_vector_has_bsearch(entries, fca)
             THEN filter_loop_no_continue([vis EXCEPT ![cur_item] = FALSE], items, entries,
                                          counts, i + 1)
             ELSE filter_loop_no_continue(vis, items, entries, counts, i + 1)

RECURSIVE filter_loop(_, _, _, _, _)
filter_loop(vis, items, entries, counts, i) ==
    IF i > Len(items) THEN vis
    ELSE LET cur_item == items[i]
             fca == first_counting_ancestor(cur_item, counts)
         IN  IF cur_item \in DOMAIN counts
             THEN filter_loop(vis, items, entries, counts, i + 1)
             ELSE IF fca = NoItem \/ ~_vector_has_bsearch(entries, fca)
             THEN filter_loop([vis EXCEPT ![cur_item] = FALSE], items, entries, counts, i + 1)
             ELSE filter_loop(vis, items, entries, counts, i + 1)

_filter_tree_hide_uncounted(vis, items, entries, counts) ==
    IF Len(entries) = 0 THEN vis
    ELSE [n \in DOMAIN vis |->
            IF (\E i \in 1..Len(items) : items[i] = n) /\ n \notin DOMAIN counts
            THEN FALSE ELSE vis[n]]

_filter_tree_no_early_return(vis, items, entries, counts) ==
    filter_loop(vis, items, entries, counts, 1)

_filter_tree(vis, items, entries, counts) ==
    IF Len(entries) = 0 THEN vis
    ELSE filter_loop(vis, items, entries, counts, 1)

_clean_callable_cache_keeps_all(cache, items) == cache

_clean_callable_cache(cache, items) ==
    LET kept == {cur_item \in DOMAIN cache : _vector_has_bsearch(items, cur_item)}
    IN  [cur_item \in kept |-> cache[cur_item]]

(***************************************************************************)
(* The inputs the model draws from.                                        *)
(***************************************************************************)
\* The texts an item may carry and the texts the panel may hold.
ItemTexts == {<<"a">>, <<"a", "b">>}
SearchTexts == {<<>>, <<"a">>, <<"b">>}

Range(s) == {s[i] : i \in 1..Len(s)}

\* The items of the tree: those reached from the root.
RECURSIVE reach(_, _)
reach(frontier, seen) ==
    IF frontier \subseteq seen THEN seen
    ELSE reach(UNION {Range(tree_children[n]) : n \in frontier}, seen \cup frontier)

TreeItems == IF tree_root = NoItem THEN {} ELSE reach({tree_root}, {})

\* par is the parent map of a tree on the items S with root r.
RECURSIVE reaches_root(_, _, _, _)
reaches_root(par, n, r, fuel) ==
    IF n = r THEN TRUE
    ELSE IF fuel = 0 \/ par[n] = NoItem THEN FALSE
    ELSE reaches_root(par, par[n], r, fuel - 1)

IsParentMap(par, S, r) ==
    /\ par[r] = NoItem
    /\ \A n \in Nodes \ S : par[n] = NoItem
    /\ \A n \in S \ {r} : par[n] \in S
    /\ \A n \in S : reaches_root(par, n, r, NumNodes)

\* The children of p under par, in the order ord gives them.
children_of(par, ord, p) ==
    LET kids == {n \in Nodes : par[n] = p}
    IN  SortSeq(CHOOSE s \in [1..Cardinality(kids) -> kids] : Range(s) = kids,
                LAMBDA a, b : ord[a] < ord[b])

\* Any tree on some of the items, in any child order, with any texts; a new
\* TreeItem is visible.
TreeInit ==
    \E S \in (SUBSET Nodes) \ {{}} : \E r \in S :
    \E par \in [Nodes -> Nodes \cup {NoItem}] :
        /\ IsParentMap(par, S, r)
        /\ \E ord \in Permutations(Nodes) :
            /\ tree_root = r
            /\ tree_children = [p \in Nodes |-> children_of(par, ord, p)]
        /\ text \in [Nodes -> ItemTexts]
        /\ \A n \in Nodes \ S : text[n] = <<"a">>
        /\ visible = [n \in Nodes |-> TRUE]

\* The host may have given the root a draw callback of its own.
DrawInit ==
    \E c \in {tree_root, NoItem} :
        /\ cell_mode = [n \in Nodes |-> IF n = c THEN CELL_MODE_CUSTOM ELSE CELL_MODE_STRING]
        /\ custom_draw_callback = [n \in Nodes |-> IF n = c THEN HostDrawCallback ELSE NullCallable]

\* No item draws itself.
DrawPlain ==
    /\ cell_mode = [n \in Nodes |-> CELL_MODE_STRING]
    /\ custom_draw_callback = [n \in Nodes |-> NullCallable]

\* The user may have selected an item, and folded the items that have children.
ViewInit ==
    /\ \E folded \in BOOLEAN :
        collapsed = [n \in Nodes |-> folded /\ Len(tree_children[n]) > 0]
    /\ selected \in TreeItems \cup {NoItem}
    /\ scrolled_to = NoItem

\* Nothing selected, nothing folded.
ViewPlain ==
    /\ collapsed = [n \in Nodes |-> FALSE]
    /\ selected = NoItem
    /\ scrolled_to = NoItem

HIGHLIGHT == 0
FILTER == 1

\* TreeSearch::TreeSearch(p_search_panel): empty containers, both flags false.
\* tree_reference has no initialiser; update_search writes it before any read.
SearchInit ==
    /\ tree_reference = NoTree
    /\ ordered_tree_items = <<>>
    /\ matching_entries = <<>>
    /\ number_matches = <<>>
    /\ callable_cache = <<>>
    /\ was_searched_recently = FALSE
    /\ was_filtered_recently = FALSE

\* No update_search has run.
CallNone ==
    /\ last_call = "none"
    /\ search_mask = <<>>
    /\ search_mode = HIGHLIGHT
    /\ repeated = FALSE
    /\ hidden_before = FALSE
    /\ dropped_keys = {}

\* No log of the selections is kept.
CallInit ==
    /\ CallNone
    /\ select_log = [on |-> FALSE, start |-> NoItem, picks |-> <<>>]

\* A log of the selections is kept.
CallLogged ==
    /\ CallNone
    /\ select_log = [on |-> TRUE, start |-> NoItem, picks |-> <<>>]

SbIdle ==
    /\ sb_searchable = <<>>
    /\ sb_search_mask = <<>>
    /\ sb_result = StringSearchIndices
    /\ sb_returned = FALSE

Init == TreeInit /\ DrawInit /\ ViewInit /\ SearchInit /\ CallInit /\ SbIdle

\* TreeSearchPanel::get_search_mode(), the filter check box pressed or not.
get_search_mode(pressed) == IF ~pressed THEN HIGHLIGHT ELSE FILTER

(***************************************************************************)
(* TreeSearch::update_search                                               *)
(***************************************************************************)
apply_search_mode_always_filter(mode, vis, items, entries, counts, filtered) ==
    [vis |-> _filter_tree(vis, items, entries, counts), filtered |-> TRUE]

\* if (search_mode == FILTER) { _filter_tree(); was_filtered_recently = true; }
\* else if (was_filtered_recently) { _clear_filter(); was_filtered_recently = false; }
apply_search_mode(mode, vis, items, entries, counts, filtered) ==
    IF mode = FILTER
    THEN [vis |-> _filter_tree(vis, items, entries, counts), filtered |-> TRUE]
    ELSE IF filtered
    THEN [vis |-> _clear_filter(vis), filtered |-> FALSE]
    ELSE [vis |-> vis, filtered |-> filtered]

\* update_search(p_tree) on the tree, the panel being shown or not (is_visible),
\* holding the text txt and having its filter box pressed or not.
update_search(shown_panel, txt, pressed) ==
    LET active == ~(~shown_panel \/ Len(txt) = 0)
        call == IF active THEN <<"active", txt, get_search_mode(pressed)>>
                ELSE <<"inactive", <<>>, HIGHLIGHT>>
    IN
    /\ tree_reference' = TheTree
    /\ last_call' = call[1]
    /\ search_mask' = call[2]
    /\ search_mode' = call[3]
    /\ repeated' = (call = <<last_call, search_mask, search_mode>>)
    /\ hidden_before' = (\E n \in Nodes : ~visible[n])
    /\ select_log' = [select_log EXCEPT !.start = IF select_log.on THEN selected ELSE @,
                                        !.picks = <<>>]
    /\ IF ~active
       THEN /\ IF was_searched_recently
               THEN /\ visible' = _clear_filter(visible)
                    /\ matching_entries' = <<>>
                    /\ was_searched_recently' = FALSE
               ELSE UNCHANGED <<visible, matching_entries, was_searched_recently>>
            /\ UNCHANGED <<ordered_tree_items, number_matches, callable_cache,
                           was_filtered_recently, cell_mode, custom_draw_callback>>
            /\ dropped_keys' = {}
       ELSE \E items \in {_update_ordered_tree_items(tree_root, ordered_tree_items)} :
            \E entries \in {_update_matching_entries(txt)} :
            \E counts \in {_update_number_matches(entries)} :
            \E st \in {_highlight_tree([mode |-> cell_mode,
                                        callback |-> custom_draw_callback,
                                        cache |-> callable_cache], items, counts)} :
            \E applied \in {apply_search_mode(get_search_mode(pressed),
                                              _clear_filter(visible), items, entries,
                                              counts, was_filtered_recently)} :
                /\ was_searched_recently' = TRUE
                /\ ordered_tree_items' = items
                /\ matching_entries' = entries
                /\ number_matches' = counts
                /\ cell_mode' = st.mode
                /\ custom_draw_callback' = st.callback
                /\ visible' = applied.vis
                /\ was_filtered_recently' = applied.filtered
                /\ callable_cache' = _clean_callable_cache(st.cache, items)
                /\ dropped_keys' = DOMAIN st.cache \ DOMAIN callable_cache'
    /\ UNCHANGED <<tree_root, tree_children, text, collapsed, selected, scrolled_to>>
    /\ UNCHANGED sbVars

\* The host calls update_search whenever the panel or the tree changed.
UpdateSearch ==
    \E shown_panel \in BOOLEAN, txt \in SearchTexts, pressed \in BOOLEAN :
        update_search(shown_panel, txt, pressed)

(***************************************************************************)
(* Selection: the panel's text_submitted signal runs _select_next_match.   *)
(***************************************************************************)
\* The first index (0-based) from `from` on whose item is a matching entry, or -1.
RECURSIVE scan_for_match(_, _, _)
scan_for_match(items, entries, from) ==
    IF from >= Len(items) THEN -1
    ELSE IF _vector_has_bsearch(entries, items[from + 1]) THEN from
    ELSE scan_for_match(items, entries, from + 1)

\* The item _select_first_match hands to _select_item, or NoItem when it returns.
_select_first_match(items, entries) ==
    IF Len(entries) = 0 THEN NoItem
    ELSE LET i == scan_for_match(items, entries, 0)
         IN  IF i < 0 THEN NoItem ELSE items[i + 1]

_select_next_match_from_selected(items, entries, sel) ==
    IF Len(entries) = 0 THEN NoItem
    ELSE IF sel = NoItem THEN _select_first_match(items, entries)
    ELSE LET found == {i \in 0..(Len(items) - 1) : items[i + 1] = sel}
             selected_idx == IF found = {} THEN -1
                             ELSE CHOOSE i \in found : \A k \in found : i <= k
             next == scan_for_match(items, entries, MAX(0, selected_idx))
         IN  IF next >= 0 THEN items[next + 1]
             ELSE _select_first_match(items, entries)

\* The item _select_next_match hands to _select_item, or NoItem when it returns.
_select_next_match(items, entries, sel) ==
    IF Len(entries) = 0 THEN NoItem
    ELSE IF sel = NoItem THEN _select_first_match(items, entries)
    ELSE LET found == {i \in 0..(Len(items) - 1) : items[i + 1] = sel}
             selected_idx == IF found = {} THEN -1
                             ELSE CHOOSE i \in found : \A k \in found : i <= k
             next == scan_for_match(items, entries, MAX(0, selected_idx) + 1)
         IN  IF next >= 0 THEN items[next + 1]
             ELSE _select_first_match(items, entries)

\* The ancestors of an item.
RECURSIVE ancestors(_)
ancestors(item) ==
    IF get_parent(item) = NoItem THEN {}
    ELSE {get_parent(item)} \cup ancestors(get_parent(item))

_select_item_parent_only(p_item) ==
    IF p_item = NoItem
    THEN UNCHANGED <<collapsed, scrolled_to, selected>>
    ELSE /\ collapsed' = [collapsed EXCEPT ![get_parent(p_item)] = FALSE]
         /\ scrolled_to' = p_item
         /\ selected' = p_item

\* _select_item: unfold the ancestors, scroll to the item, select it alone.
_select_item(p_item) ==
    IF p_item = NoItem
    THEN UNCHANGED <<collapsed, scrolled_to, selected>>
    ELSE /\ collapsed' = [n \in Nodes |-> IF n \in ancestors(p_item) THEN FALSE ELSE collapsed[n]]
         /\ scrolled_to' = p_item
         /\ selected' = p_item

\* The panel's text_submitted signal: _select_next_match().
text_submitted ==
    /\ _select_item(_select_next_match(ordered_tree_items, matching_entries, selected))
    /\ repeated' = FALSE
    /\ UNCHANGED <<tree_root, tree_children, text, visible, cell_mode, custom_draw_callback>>
    /\ select_log' =
          IF /\ select_log.on
             /\ _select_next_match(ordered_tree_items, matching_entries, selected) # NoItem
             /\ Len(select_log.picks) < Len(matching_entries)
          THEN [select_log EXCEPT !.picks = Append(@, selected')]
          ELSE select_log
    /\ UNCHANGED <<last_call, search_mask, search_mode, hidden_before, dropped_keys>>
    /\ UNCHANGED <<searchVars, sbVars>>

Next ==
    \/ UpdateSearch
    \/ text_submitted

\* The whole program.
Spec == Init /\ [][Next]_vars

\* The search on its own: update_search called again and again, nothing selected.
InitUpdate == TreeInit /\ DrawInit /\ ViewPlain /\ SearchInit /\ CallInit /\ SbIdle
SpecUpdate == InitUpdate /\ [][UpdateSearch]_vars

(***************************************************************************)
(* update_search from its first line: the panel or the tree may be null.   *)
(***************************************************************************)
err_fail_cond_panel_only(has_panel, has_tree) == ~has_panel

\* ERR_FAIL_COND(!search_panel || !p_tree);
err_fail_cond(has_panel, has_tree) == ~has_panel \/ ~has_tree

\* update_search(p_tree) with search_panel and p_tree null or not.
update_search_guarded(has_panel, has_tree, shown_panel, txt, pressed) ==
    IF err_fail_cond(has_panel, has_tree)
    THEN /\ last_call' = "failed"
         /\ repeated' = FALSE
         /\ UNCHANGED <<search_mask, search_mode, hidden_before, dropped_keys, select_log>>
         /\ UNCHANGED <<treeVars, searchVars, sbVars>>
    ELSE update_search(shown_panel, txt, pressed)

\* The panel, when there is one, is shown and holds "b".
UpdateSearchGuarded ==
    \E has_panel \in BOOLEAN, has_tree \in BOOLEAN, pressed \in BOOLEAN :
        update_search_guarded(has_panel, has_tree, TRUE, <<"b">>, pressed)

InitGuarded == TreeInit /\ DrawPlain /\ ViewPlain /\ SearchInit /\ CallInit /\ SbIdle
SpecGuarded == InitGuarded /\ [][UpdateSearchGuarded]_vars

(***************************************************************************)
(* The search in FILTER mode and the selection moved from match to match.  *)
(***************************************************************************)
\* The panel is shown and holds "b" with the filter box pressed.
UpdateSearchFilter == update_search(TRUE, <<"b">>, TRUE)

NextSelect ==
    \/ UpdateSearchFilter
    \/ text_submitted

InitSelect == TreeInit /\ DrawPlain /\ ViewInit /\ SearchInit /\ CallInit /\ SbIdle
SpecSelect == InitSelect /\ [][NextSelect]_vars

(***************************************************************************)
(* The selection stepped through the matches of one update_search, the     *)
(* selections logged.                                                      *)
(***************************************************************************)
\* The panel is shown and holds "b", in HIGHLIGHT mode.
UpdateSearchCycle == update_search(TRUE, <<"b">>, FALSE)

NextCycle ==
    \/ UpdateSearchCycle
    \/ text_submitted

\* Nothing folded; any item selected, or none.
ViewUnfolded ==
    /\ collapsed = [n \in Nodes |-> FALSE]
    /\ selected \in TreeItems \cup {NoItem}
    /\ scrolled_to = NoItem

InitCycle == TreeInit /\ DrawPlain /\ ViewUnfolded /\ SearchInit /\ CallLogged /\ SbIdle
SpecCycle == InitCycle /\ [][NextCycle]_vars

(***************************************************************************)
(* The host edits an item: it sets the item's draw callback itself and     *)
(* calls notify_item_edited.                                               *)
(***************************************************************************)
\* A draw callback the host sets on an item it edits.
ExternalDrawCallback == <<"host_edit">>

\* TreeItem::set_custom_draw_callback(0, callback) by the host, once after an
\* update_search; the cell mode is left as it is.
host_sets_draw_callback(item, callback) ==
    /\ last_call \in {"active", "inactive"}
    /\ callback # custom_draw_callback[item]
    /\ custom_draw_callback' = [custom_draw_callback EXCEPT ![item] = callback]
    /\ last_call' = "overwritten"
    /\ repeated' = FALSE
    /\ UNCHANGED <<tree_root, tree_children, text, visible, cell_mode, collapsed,
                   selected, scrolled_to>>
    /\ UNCHANGED <<search_mask, search_mode, hidden_before, dropped_keys, select_log>>
    /\ UNCHANGED <<searchVars, sbVars>>

\* The host edits the selected item.
HostSetsDrawCallback ==
    \E callback \in {ExternalDrawCallback, NullCallable} :
        host_sets_draw_callback(selected, callback)

notify_item_edited_mode_inverted(item) ==
    /\ IF cell_mode[item] = CELL_MODE_CUSTOM
       THEN UNCHANGED <<cell_mode, custom_draw_callback, callable_cache>>
       ELSE \E st \in {_highlight_tree_item([mode |-> cell_mode,
                                              callback |-> custom_draw_callback,
                                              cache |-> callable_cache],
                                             number_matches, item)} :
                /\ cell_mode' = st.mode
                /\ custom_draw_callback' = st.callback
                /\ callable_cache' = st.cache
    /\ last_call' = "notified"
    /\ repeated' = FALSE
    /\ UNCHANGED <<tree_root, tree_children, text, visible, collapsed, selected, scrolled_to>>
    /\ UNCHANGED <<tree_reference, ordered_tree_items, matching_entries, number_matches,
                   was_searched_recently, was_filtered_recently>>
    /\ UNCHANGED <<search_mask, search_mode, hidden_before, dropped_keys, select_log>>
    /\ UNCHANGED sbVars

\* TreeSearch::notify_item_edited(item)
notify_item_edited(item) ==
    /\ IF cell_mode[item] # CELL_MODE_CUSTOM
       THEN UNCHANGED <<cell_mode, custom_draw_callback, callable_cache>>
       ELSE \E st \in {_highlight_tree_item([mode |-> cell_mode,
                                              callback |-> custom_draw_callback,
                                              cache |-> callable_cache],
                                             number_matches, item)} :
                /\ cell_mode' = st.mode
                /\ custom_draw_callback' = st.callback
                /\ callable_cache' = st.cache
    /\ last_call' = "notified"
    /\ repeated' = FALSE
    /\ UNCHANGED <<tree_root, tree_children, text, visible, collapsed, selected, scrolled_to>>
    /\ UNCHANGED <<tree_reference, ordered_tree_items, matching_entries, number_matches,
                   was_searched_recently, was_filtered_recently>>
    /\ UNCHANGED <<search_mask, search_mode, hidden_before, dropped_keys, select_log>>
    /\ UNCHANGED sbVars

\* The host reports an item after it has edited one.
NotifyItemEdited ==
    /\ last_call = "overwritten"
    /\ notify_item_edited(selected)

\* The panel holds "b" in HIGHLIGHT mode, and is shown or hidden.
UpdateSearchEdit ==
    \E shown_panel \in BOOLEAN : update_search(shown_panel, <<"b">>, FALSE)

NextEdit ==
    \/ UpdateSearchEdit
    \/ HostSetsDrawCallback
    \/ NotifyItemEdited

\* The search on a tree whose items the host edits.
\* Nothing folded, and the item the host is going to edit selected.
ViewSelected ==
    /\ collapsed = [n \in Nodes |-> FALSE]
    /\ selected \in TreeItems
    /\ scrolled_to = NoItem

InitEdit == TreeInit /\ DrawPlain /\ ViewSelected /\ SearchInit /\ CallInit /\ SbIdle
SpecEdit == InitEdit /\ [][NextEdit]_vars

(***************************************************************************)
(* The search on a tree the host removes items from and adds items to.     *)
(***************************************************************************)
\* The items below item, item included.
RECURSIVE descendants(_)
descendants(item) ==
    {item} \cup UNION {descendants(tree_children[item][i]) : i \in 1..Len(tree_children[item])}

\* A sequence without the elements of gone.
RECURSIVE without(_, _)
without(s, gone) ==
    IF s = <<>> THEN <<>>
    ELSE (IF Head(s) \in gone THEN <<>> ELSE <<Head(s)>>) \o without(Tail(s), gone)

\* The host frees an item other than the root: the item and the items below it
\* leave the tree.  TreeSearch is not told: ordered_tree_items, matching_entries,
\* number_matches and callable_cache keep the pointers.
remove_item(item) ==
    \E gone \in {descendants(item)} :
        /\ item # tree_root
        /\ tree_children' = [p \in Nodes |-> IF p \in gone THEN <<>>
                                              ELSE without(tree_children[p], gone)]
        /\ text' = [n \in Nodes |-> IF n \in gone THEN <<"a">> ELSE text[n]]
        /\ visible' = [n \in Nodes |-> n \in gone \/ visible[n]]
        /\ cell_mode' = [n \in Nodes |-> IF n \in gone THEN CELL_MODE_STRING ELSE cell_mode[n]]
        /\ custom_draw_callback' =
              [n \in Nodes |-> IF n \in gone THEN NullCallable ELSE custom_draw_callback[n]]
        /\ collapsed' = [n \in Nodes |-> n \notin gone /\ collapsed[n]]
        /\ selected' = IF selected \in gone THEN NoItem ELSE selected
        /\ scrolled_to' = IF scrolled_to \in gone THEN NoItem ELSE scrolled_to
        /\ last_call' = "removed"
        /\ repeated' = FALSE
        /\ UNCHANGED tree_root
        /\ UNCHANGED <<search_mask, search_mode, hidden_before, dropped_keys, select_log>>
        /\ UNCHANGED <<searchVars, sbVars>>

RemoveItem == \E item \in TreeItems : remove_item(item)

\* The host creates an item as the last child of parent.  The allocator may
\* hand out any address no item of the tree has, a freed one included.
create_item(parent, item, label) ==
    /\ tree_children' = [tree_children EXCEPT ![parent] = Append(@, item)]
    /\ text' = [text EXCEPT ![item] = label]
    /\ last_call' = "created"
    /\ repeated' = FALSE
    /\ UNCHANGED <<tree_root, visible, cell_mode, custom_draw_callback, collapsed,
                   selected, scrolled_to>>
    /\ UNCHANGED <<search_mask, search_mode, hidden_before, dropped_keys, select_log>>
    /\ UNCHANGED <<searchVars, sbVars>>

\* The new item carries a text the mask does not match.
CreateItem ==
    \E parent \in TreeItems, item \in Nodes \ TreeItems :
        create_item(parent, item, <<"a">>)

\* The panel is shown and holds "b" in HIGHLIGHT mode: every update scans.
UpdateSearchPrune == update_search(TRUE, <<"b">>, FALSE)

NextPrune ==
    \/ UpdateSearchPrune
    \/ RemoveItem
    \/ CreateItem

InitPrune == TreeInit /\ DrawPlain /\ ViewPlain /\ SearchInit /\ CallInit /\ SbIdle
SpecPrune == InitPrune /\ [][NextPrune]_vars

(***************************************************************************)
(* The search on a tree the host takes items out of and puts back.         *)
(***************************************************************************)
\* How many times _draw_highlight_item occurs in the chain of a draw callback.
OverlayCount(c) == Cardinality({i \in 1..Len(c) : c[i] = "_draw_highlight_item"})

\* TreeItem::remove_child by the host: the item leaves the tree with the items
\* below it and stays alive, its text, cell mode and draw callback with it.
\* No item is taken out once a chain holds MaxLayers overlays.
detach_item(item) ==
    /\ item # tree_root
    /\ \A n \in Nodes : OverlayCount(custom_draw_callback[n]) < MaxLayers
    /\ tree_children' = [tree_children EXCEPT ![get_parent(item)] = without(@, {item})]
    /\ selected' = IF selected \in descendants(item) THEN NoItem ELSE selected
    /\ scrolled_to' = IF scrolled_to \in descendants(item) THEN NoItem ELSE scrolled_to
    /\ last_call' = "detached"
    /\ repeated' = FALSE
    /\ UNCHANGED <<tree_root, text, visible, cell_mode, custom_draw_callback, collapsed>>
    /\ UNCHANGED <<search_mask, search_mode, hidden_before, dropped_keys, select_log>>
    /\ UNCHANGED <<searchVars, sbVars>>

DetachItem == \E item \in TreeItems : detach_item(item)

\* TreeItem::add_child by the host: an item outside the tree that has no parent
\* becomes the last child of an item of the tree, as it is.
attach_item(parent, item) ==
    /\ get_parent(item) = NoItem
    /\ tree_children' = [tree_children EXCEPT ![parent] = Append(@, item)]
    /\ last_call' = "attached"
    /\ repeated' = FALSE
    /\ UNCHANGED <<tree_root, text, visible, cell_mode, custom_draw_callback, collapsed,
                   selected, scrolled_to>>
    /\ UNCHANGED <<search_mask, search_mode, hidden_before, dropped_keys, select_log>>
    /\ UNCHANGED <<searchVars, sbVars>>

AttachItem ==
    \E parent \in TreeItems, item \in Nodes \ TreeItems : attach_item(parent, item)

\* The panel is shown and holds "b" in HIGHLIGHT mode.
UpdateSearchReattach == update_search(TRUE, <<"b">>, FALSE)

NextReattach ==
    \/ UpdateSearchReattach
    \/ DetachItem
    \/ AttachItem

InitReattach == TreeInit /\ DrawPlain /\ ViewPlain /\ SearchInit /\ CallInit /\ SbIdle
SpecReattach == InitReattach /\ [][NextReattach]_vars

(***************************************************************************)
(* The search on a tree the host clears: Tree::get_root() is null.         *)
(***************************************************************************)
\* Tree::clear() by the host: every item is freed and the tree has no root.
\* TreeSearch is not told.
clear_tree ==
    /\ tree_root # NoItem
    /\ tree_root' = NoItem
    /\ tree_children' = [n \in Nodes |-> <<>>]
    /\ text' = [n \in Nodes |-> <<"a">>]
    /\ visible' = [n \in Nodes |-> TRUE]
    /\ cell_mode' = [n \in Nodes |-> CELL_MODE_STRING]
    /\ custom_draw_callback' = [n \in Nodes |-> NullCallable]
    /\ collapsed' = [n \in Nodes |-> FALSE]
    /\ selected' = NoItem
    /\ scrolled_to' = NoItem
    /\ last_call' = "cleared"
    /\ repeated' = FALSE
    /\ UNCHANGED <<search_mask, search_mode, hidden_before, dropped_keys, select_log>>
    /\ UNCHANGED <<searchVars, sbVars>>

\* update_search(p_tree) on a tree without a root, the panel shown and holding
\* the non-empty text txt.  _update_ordered_tree_items(nullptr) returns before
\* it clears the list; _find_matching_entries(nullptr) returns, so
\* matching_entries and number_matches become empty; _clear_filter then calls
\* set_visible on the null root.  What follows that call is undefined: the
\* process stops there (crashed), or the call goes on as if the null item had
\* no children (survived).
update_search_no_root(txt, pressed, outcome) ==
    /\ tree_root = NoItem
    /\ Len(txt) > 0
    /\ tree_reference' = TheTree
    /\ was_searched_recently' = TRUE
    /\ matching_entries' = <<>>
    /\ number_matches' = <<>>
    /\ search_mask' = txt
    /\ search_mode' = get_search_mode(pressed)
    /\ repeated' = FALSE
    /\ hidden_before' = FALSE
    /\ select_log' = [select_log EXCEPT !.picks = <<>>]
    /\ UNCHANGED ordered_tree_items
    /\ IF outcome = "crashed"
       THEN /\ last_call' = "crashed"
            /\ UNCHANGED <<callable_cache, was_filtered_recently, dropped_keys>>
       ELSE /\ last_call' = "active"
            /\ was_filtered_recently' = (get_search_mode(pressed) = FILTER)
            /\ callable_cache' = _clean_callable_cache(callable_cache, ordered_tree_items)
            /\ dropped_keys' = DOMAIN callable_cache \ DOMAIN callable_cache'
    /\ UNCHANGED <<treeVars, sbVars>>

\* Nothing is called in a process that has stopped.
UpdateSearchNoRoot ==
    /\ last_call # "crashed"
    /\ \E pressed \in BOOLEAN, outcome \in {"crashed", "survived"} :
          update_search_no_root(<<"b">>, pressed, outcome)

\* update_search on the tree while it has a root.
UpdateSearchRooted ==
    /\ tree_root # NoItem
    /\ \E shown_panel \in BOOLEAN, pressed \in BOOLEAN :
          update_search(shown_panel, <<"b">>, pressed)

ClearTree == clear_tree

NextNoRoot ==
    \/ UpdateSearchRooted
    \/ ClearTree
    \/ UpdateSearchNoRoot

InitNoRoot == TreeInit /\ DrawPlain /\ ViewPlain /\ SearchInit /\ CallInit /\ SbIdle
SpecNoRoot == InitNoRoot /\ [][NextNoRoot]_vars

(***************************************************************************)
(* _substring_bounds on its own: one call on any text and any mask.        *)
(***************************************************************************)
\* All the strings of at most n characters drawn from chars.
StringsUpTo(n, chars) == UNION {[1..k -> chars] : k \in 0..n}

\* The example of the comment above _substring_bounds.
ExampleSearchable ==
    <<"T", "i", "m", "e", "L", "i", "m", "i", "t", " ", "2", " ", "s", "e", "c">>
ExampleMaskLower == <<"l", "i", "m", "i", "t", " ", "2", " ", "s", "e", "c">>
ExampleMaskMixed == <<"L", "i", "m", "i", "T", " ", "2", " ", "S", "E", "C">>
ExampleMaskSwapped == <<"L", "i", "m", "i", "t", " ", "s", "e", "c", " ", "2">>

\* The masks of three one-letter words.
ThreeWordMasks == {<<x, " ", y, " ", z>> : x \in {"a", "b"}, y \in {"a", "b"}, z \in {"a", "b"}}

\* A text longer than UPPER_BOUND: "a" all along, and "b" at offset UPPER_BOUND + 1.
LongSearchable ==
    [i \in 1..(UPPER_BOUND + 2) |-> IF i = UPPER_BOUND + 2 THEN "b" ELSE "a"]

\* The masks tried on the long text: one word, and the same word twice.
LongMasks == {<<"b">>, <<"b", " ", "b">>}

Searchables == StringsUpTo(MaxLabelLen, {"a", "A", "b"})
SearchMasks == StringsUpTo(MaxMaskLen, {"a", "A", "b", " "}) \cup ThreeWordMasks

\* No tree, nothing searched.
TreeIdle ==
    /\ tree_root = NoItem
    /\ tree_children = [n \in Nodes |-> <<>>]
    /\ text = [n \in Nodes |-> <<"a">>]
    /\ visible = [n \in Nodes |-> TRUE]

InitBounds ==
    /\ \/ /\ sb_searchable \in Searchables
          /\ sb_search_mask \in SearchMasks
       \/ /\ sb_searchable = ExampleSearchable
          /\ sb_search_mask \in {ExampleMaskLower, ExampleMaskMixed, ExampleMaskSwapped}
       \/ /\ sb_searchable = LongSearchable
          /\ sb_search_mask \in LongMasks
    /\ sb_result = StringSearchIndices
    /\ sb_returned = FALSE
    /\ TreeIdle /\ DrawPlain /\ ViewPlain /\ SearchInit /\ CallInit

substring_bounds_called ==
    /\ ~sb_returned
    /\ sb_result' = _substring_bounds(sb_searchable, sb_search_mask)
    /\ sb_returned' = TRUE
    /\ UNCHANGED <<sb_searchable, sb_search_mask, treeVars, searchVars, callVars>>

SpecBounds == InitBounds /\ [][substring_bounds_called]_vars

(***************************************************************************)
(* Masks that hold no word: _substring_bounds called on its own with such  *)
(* a mask, or update_search called with the panel holding one.             *)
(***************************************************************************)
\* The masks without a word: empty, or spaces only.
BlankMasks == {<<>>, <<" ">>, <<" ", " ">>}

\* The texts the panel may hold: none, a word, a space.
BlankSearchTexts == {<<>>, <<"b">>, <<" ">>}

InitBlankBounds ==
    /\ sb_searchable \in Searchables
    /\ sb_search_mask \in BlankMasks
    /\ sb_result = StringSearchIndices
    /\ sb_returned = FALSE
    /\ TreeIdle /\ DrawPlain /\ ViewPlain /\ SearchInit /\ CallInit

\* Either _substring_bounds is called on its own, or a tree is searched.
InitBlank == InitUpdate \/ InitBlankBounds

UpdateSearchBlank ==
    /\ tree_root # NoItem
    /\ \E shown_panel \in BOOLEAN, txt \in BlankSearchTexts, pressed \in BOOLEAN :
            update_search(shown_panel, txt, pressed)

BlankBoundsCalled ==
    /\ tree_root = NoItem
    /\ substring_bounds_called

NextBlank ==
    \/ UpdateSearchBlank
    \/ BlankBoundsCalled

SpecBlank == InitBlank /\ [][NextBlank]_vars

(***************************************************************************)
(* Properties of _substring_bounds (checked under SpecBounds).             *)
(***************************************************************************)
\* The mask holds no upper-case letter.
NoUpperCase(s) == \A i \in DOMAIN s : s[i] \notin Range(UpperCase)

\* s as the comparison sees it under the mask: lowered when the mask holds no
\* upper-case letter, as it is otherwise.
Folded(s, mask) == IF NoUpperCase(mask) THEN to_lower(s) ELSE s

\* The offsets at which w stands in s.
Occurrences(s, w) == {p \in 0..Len(s) : occurs_at(s, w, p)}

IsSingleWord(mask) == Len(mask) > 0 /\ \A i \in DOMAIN mask : mask[i] # " "

\* The non-empty words of a mask, in order.
WordsOf(mask) == SelectSeq(split(mask), LAMBDA w : Len(w) > 0)

\* The offsets of the first occurrence of the one-word mask, as the claim has them.
SingleWordClaim ==
    LET occ == Occurrences(Folded(sb_searchable, sb_search_mask),
                           Folded(sb_search_mask, sb_search_mask))
    IN  /\ hit(sb_result) <=> occ # {}
        /\ hit(sb_result) =>
            /\ sb_result.lower \in occ
            /\ \A p \in occ : sb_result.lower <= p
            /\ sb_result.upper = sb_result.lower + Len(sb_search_mask)

\* C8: for every text L and every mask that is one non-empty word W,
\* _substring_bounds(L, W) is a hit if and only if W stands somewhere in L (both
\* lowered when W holds no upper-case letter, both as they are otherwise); on a
\* hit lower is the offset of the first such occurrence and upper = lower + length(W).
C8_SingleWordMatching ==
    (sb_returned /\ IsSingleWord(sb_search_mask)) => SingleWordClaim

\* The same for the texts of at most UPPER_BOUND characters.
SingleWordWithinUpperBound ==
    (sb_returned /\ IsSingleWord(sb_search_mask) /\ Len(sb_searchable) <= UPPER_BOUND)
        => SingleWordClaim

\* A one-word mask with an upper-case letter found past the start of the text.
SingleWordFoundCaseSensitive ==
    /\ sb_returned
    /\ IsSingleWord(sb_search_mask)
    /\ ~NoUpperCase(sb_search_mask)
    /\ hit(sb_result)
    /\ sb_result.lower > 0

\* A word whose only occurrence starts past offset UPPER_BOUND: lower is UPPER_BOUND.
LowerCappedAtUpperBound ==
    /\ sb_returned
    /\ Len(sb_searchable) > UPPER_BOUND
    /\ IsSingleWord(sb_search_mask)
    /\ hit(sb_result)
    /\ sb_result.lower = UPPER_BOUND
    /\ sb_result.upper = Len(sb_searchable)

\* The ways to place the words w[1..k] in s at offsets that never decrease.
Placements(s, w) ==
    LET occ == [i \in 1..Len(w) |-> Occurrences(s, w[i])]
    IN  {p \in [1..Len(w) -> UNION {occ[i] : i \in 1..Len(w)}] :
            /\ \A i \in 1..Len(w) : p[i] \in occ[i]
            /\ \A i \in 1..(Len(w) - 1) : p[i] <= p[i + 1]}

\* The hit and the bounds of a mask of several words, as the claim has them.
MultiWordClaim ==
    LET w == WordsOf(sb_search_mask)
        fw == [i \in 1..Len(w) |-> Folded(w[i], sb_search_mask)]
        placed == Placements(Folded(sb_searchable, sb_search_mask), fw)
    IN  /\ hit(sb_result) <=> placed # {}
        /\ ~hit(sb_result) => sb_result = StringSearchIndices
        /\ hit(sb_result) =>
            \E m \in placed :
                /\ \A q \in placed : \A i \in 1..Len(w) : m[i] <= q[i]
                /\ \A i \in 1..Len(w) : sb_result.lower <= m[i]
                /\ \E i \in 1..Len(w) : sb_result.lower = m[i]
                /\ \A i \in 1..Len(w) : sb_result.upper >= m[i] + Len(w[i])
                /\ \E i \in 1..Len(w) : sb_result.upper = m[i] + Len(w[i])

\* C9: for every text and every mask with the non-empty words w1..wk (k >= 1),
\* _substring_bounds is a hit if and only if the words stand in the text at
\* offsets p1 <= ... <= pk (each word is looked for from the offset of the word
\* before it); otherwise the result is no hit; on a hit the occurrences found are
\* the earliest such offsets, lower is the least start offset and upper the
\* greatest end offset among them.
C9_MultiWordOrdering ==
    (sb_returned /\ Len(WordsOf(sb_search_mask)) >= 1) => MultiWordClaim

\* The same for the texts of at most UPPER_BOUND characters.
MultiWordWithinUpperBound ==
    (sb_returned /\ Len(WordsOf(sb_search_mask)) >= 1 /\ Len(sb_searchable) <= UPPER_BOUND)
        => MultiWordClaim

\* Two words whose only occurrences start past offset UPPER_BOUND: lower is UPPER_BOUND.
MultiWordLowerCapped ==
    /\ sb_returned
    /\ Len(sb_searchable) > UPPER_BOUND
    /\ Len(WordsOf(sb_search_mask)) = 2
    /\ hit(sb_result)
    /\ sb_result.lower = UPPER_BOUND
    /\ sb_result.upper = Len(sb_searchable)

\* A hit of several words that overlap in the text: the bounds span fewer
\* characters than the first two words have together.
MultiWordOverlap ==
    /\ sb_returned
    /\ Len(WordsOf(sb_search_mask)) >= 2
    /\ hit(sb_result)
    /\ sb_result.upper - sb_result.lower
         < Len(WordsOf(sb_search_mask)[1]) + Len(WordsOf(sb_search_mask)[2])

\* A mask whose words all stand in the text, but not in the order of the mask.
MultiWordWrongOrder ==
    /\ sb_returned
    /\ Len(WordsOf(sb_search_mask)) >= 2
    /\ ~hit(sb_result)
    /\ \A i \in 1..Len(WordsOf(sb_search_mask)) :
          Occurrences(Folded(sb_searchable, sb_search_mask),
                      Folded(WordsOf(sb_search_mask)[i], sb_search_mask)) # {}

\* The words of the mask can be placed in s at offsets that never decrease, the
\* words lowered first or not.
CanPlace(s, lowered) ==
    LET w == WordsOf(sb_search_mask)
    IN  Placements(s, [i \in 1..Len(w) |-> IF lowered THEN to_lower(w[i]) ELSE w[i]]) # {}

\* C11: the match ignores case (text and words both lowered) if and only if the
\* mask equals its own lower-case form; a mask with an upper-case letter is
\* matched exactly, so a text that holds the words only in another letter case
\* is no hit.
C11_CaseSensitivityAutoDetected ==
    (sb_returned /\ Len(WordsOf(sb_search_mask)) >= 1) =>
        IF sb_search_mask = to_lower(sb_search_mask)
        THEN hit(sb_result) <=> CanPlace(to_lower(sb_searchable), TRUE)
        ELSE /\ hit(sb_result) <=> CanPlace(sb_searchable, FALSE)
             /\ ~CanPlace(sb_searchable, FALSE) => ~hit(sb_result)

\* A mask with an upper-case letter on a text that holds its words only in
\* another letter case: no hit.
C11_Witness ==
    /\ sb_returned
    /\ Len(WordsOf(sb_search_mask)) >= 1
    /\ sb_search_mask # to_lower(sb_search_mask)
    /\ ~hit(sb_result)
    /\ ~CanPlace(sb_searchable, FALSE)
    /\ CanPlace(to_lower(sb_searchable), TRUE)

\* A lower-case mask found in a text that holds a word in upper case.
C11_WitnessInsensitive ==
    /\ sb_returned
    /\ sb_search_mask = to_lower(sb_search_mask)
    /\ hit(sb_result)
    /\ ~CanPlace(sb_searchable, FALSE)

IsSearchOverlay(c) == Len(c) > 0 /\ c[Len(c)] = "_draw_highlight_item"

\* The item's own text matches the mask of the last update_search.
Matches(n) == hit(_substring_bounds(text[n], search_mask))

\* The items of the subtree of n, n included.
Subtree(n) == reach({n}, {})

SubtreeHasMatch(n) == \E m \in Subtree(n) : Matches(m)

\* An update_search that took the active branch has run at some time (the root
\* is in ordered_tree_items from then on).
HasSearched == Len(ordered_tree_items) > 0

\* C1: after update_search with a non-empty text followed by update_search with
\* an empty text (or a hidden panel), no item of the tree carries a draw
\* callback installed by the search.
C1_ClearingRemovesOverlays ==
    (last_call = "inactive" /\ HasSearched) =>
        \A n \in TreeItems : ~IsSearchOverlay(custom_draw_callback[n])

\* C2: after any sequence of update_search calls that ends with one that found
\* the text empty or the panel hidden, and holds an earlier one with a non-empty
\* text and a shown panel, every item of the tree is visible.
C2_ClearingRestoresVisibility ==
    (last_call = "inactive" /\ HasSearched) => \A n \in TreeItems : visible[n]

\* The clearing call found an item hidden and left every item visible.
C2_Witness ==
    /\ last_call = "inactive"
    /\ HasSearched
    /\ hidden_before
    /\ \A n \in TreeItems : visible[n]

\* C3 as stated: after update_search in FILTER mode on a tree in which an item
\* matches, an item is hidden if and only if no item of its subtree matches.
C3_FilterHidesMatchFreeSubtrees ==
    (last_call = "active" /\ search_mode = FILTER /\ \E m \in TreeItems : Matches(m)) =>
        \A n \in TreeItems : ~visible[n] <=> ~SubtreeHasMatch(n)

\* The nearest ancestor of n whose subtree holds a match.
NearestCountingAncestor(n) ==
    CHOOSE a \in ancestors(n) :
        /\ SubtreeHasMatch(a)
        /\ \A b \in ancestors(n) : SubtreeHasMatch(b) => a \in Subtree(b)

\* C3, amended: after update_search in FILTER mode on a tree in which an item
\* matches, an item is hidden if and only if no item of its subtree matches and
\* its nearest ancestor with a match in its subtree is not itself a match (the
\* match-free items below a matching item stay visible).
C3_FilterHidesOutsideMatches ==
    (last_call = "active" /\ search_mode = FILTER /\ \E m \in TreeItems : Matches(m)) =>
        \A n \in TreeItems :
            ~visible[n] <=> (~SubtreeHasMatch(n) /\ ~Matches(NearestCountingAncestor(n)))

\* A filtering call that left a match-free item visible below a matching item.
C3_Witness ==
    /\ last_call = "active"
    /\ search_mode = FILTER
    /\ \E m \in TreeItems : Matches(m)
    /\ \E n \in TreeItems :
          /\ visible[n]
          /\ ~SubtreeHasMatch(n)
          /\ Matches(NearestCountingAncestor(n))

\* A filtering call that hid a match-free item below an item that does not match.
C3_WitnessHidden ==
    /\ last_call = "active"
    /\ search_mode = FILTER
    /\ \E m \in TreeItems : Matches(m)
    /\ \E n \in TreeItems :
          /\ ~visible[n]
          /\ ~SubtreeHasMatch(n)
          /\ ~Matches(NearestCountingAncestor(n))

\* C4: after update_search with a non-empty text in HIGHLIGHT mode, whatever
\* calls came before it, every item of the tree is visible.
C4_HighlightShowsEveryItem ==
    (last_call = "active" /\ search_mode = HIGHLIGHT) => \A n \in TreeItems : visible[n]

\* The highlighting call found an item hidden (by a filtering call before it).
C4_Witness ==
    /\ last_call = "active"
    /\ search_mode = HIGHLIGHT
    /\ hidden_before
    /\ \A n \in TreeItems : visible[n]

\* C5: an update_search that repeats the call before it (same non-empty text,
\* same mode, the tree unchanged) finds every counted item a cache hit, installs
\* no draw callback and leaves every item's visibility, cell mode and draw
\* callback as the first call left them.
C5_UpdateIdempotent ==
    [][(last_call = "active" /\ last_call' = "active" /\ repeated') =>
          /\ \A n \in DOMAIN number_matches' :
                /\ n \in DOMAIN callable_cache
                /\ cell_mode[n] = CELL_MODE_CUSTOM
                /\ custom_draw_callback[n] = callable_cache[n]
          /\ custom_draw_callback' = custom_draw_callback
          /\ callable_cache' = callable_cache
          /\ cell_mode' = cell_mode
          /\ visible' = visible]_vars

\* A repeated call in FILTER mode with counted items and a hidden item.
C5_Witness ==
    /\ last_call = "active"
    /\ repeated
    /\ search_mode = FILTER
    /\ DOMAIN number_matches # {}
    /\ \E n \in TreeItems : ~visible[n]

(***************************************************************************)
(* Properties of the selection (checked under Spec).                       *)
(***************************************************************************)
\* The items in pre-order: the root first, then each child's subtree in child order.
PreOrder == IF tree_root = NoItem THEN <<>> ELSE collect_items(tree_root)

MatchSet == Range(matching_entries)

\* The matches in pre-order.
MatchesInPreOrder == SelectSeq(PreOrder, LAMBDA n : n \in MatchSet)

\* C6: when the selected item is the last match in pre-order, _select_next_match
\* selects the first match in pre-order.
C6_WraparoundSelection ==
    [][(/\ text_submitted
        /\ MatchSet # {}
        /\ selected = MatchesInPreOrder[Len(MatchesInPreOrder)])
          => selected' = MatchesInPreOrder[1]]_vars

\* C7: when an item matches and no item is selected, _select_next_match selects
\* the match that comes first in pre-order.
C7_FirstSelection ==
    [][(text_submitted /\ MatchSet # {} /\ selected = NoItem)
          => selected' = MatchesInPreOrder[1]]_vars

(***************************************************************************)
(* Properties of the masks without a word (checked under SpecBlank).       *)
(***************************************************************************)
IsBlank(mask) == \A i \in DOMAIN mask : mask[i] = " "

\* C12: for every text, _substring_bounds with the empty mask, and with a mask
\* of spaces only, returns a result that is no hit; an update_search with a mask
\* of spaces only leaves matching_entries empty, leaves every item visible and
\* installs no draw callback.
C12_BlankMaskNeverMatches ==
    [][/\ (~sb_returned /\ sb_returned' /\ IsBlank(sb_search_mask)) => ~hit(sb_result')
       /\ (last_call' = "active" /\ IsBlank(search_mask')) =>
            /\ matching_entries' = <<>>
            /\ \A n \in TreeItems : visible'[n]
            /\ custom_draw_callback' = custom_draw_callback
            /\ cell_mode' = cell_mode]_vars

\* _substring_bounds has returned from a mask of spaces on a text that is not empty.
C12_Witness ==
    /\ sb_returned
    /\ Len(sb_search_mask) > 0
    /\ IsBlank(sb_search_mask)
    /\ Len(sb_searchable) > 0
    /\ ~hit(sb_result)

\* update_search in FILTER mode with a mask of spaces found an item hidden and an
\* overlay installed by the call before it.
C12_WitnessUpdate ==
    /\ last_call = "active"
    /\ IsBlank(search_mask)
    /\ search_mode = FILTER
    /\ hidden_before
    /\ matching_entries = <<>>
    /\ \E n \in TreeItems : IsSearchOverlay(custom_draw_callback[n])

(***************************************************************************)
(* Properties of the match counts and the overlays.                        *)
(***************************************************************************)
\* The count recorded for an item, absent meaning 0.
CountOf(n) == IF n \in DOMAIN number_matches THEN number_matches[n] ELSE 0

\* C13: after an update_search with a non-empty text, the count recorded for an
\* item (absent = 0) is the number of items of its subtree, itself included,
\* whose own text matches; the root's count is the number of all matches, and an
\* item has an entry exactly when it matches or is an ancestor of a match.
C13_SubtreeMatchCounts ==
    (last_call = "active") =>
        /\ DOMAIN number_matches \subseteq TreeItems
        /\ \A n \in TreeItems :
              /\ CountOf(n) = Cardinality({m \in Subtree(n) : Matches(m)})
              /\ n \in DOMAIN number_matches <=> SubtreeHasMatch(n)
        /\ CountOf(tree_root) = Cardinality({m \in TreeItems : Matches(m)})

\* An item that does not match itself has the count 2 from two matches below it.
C13_Witness ==
    /\ last_call = "active"
    /\ \E n \in TreeItems : ~Matches(n) /\ CountOf(n) = 2

\* C14: when the host has set another draw callback on an item that has a
\* positive count (so the callback is not the one in callable_cache), then after
\* notify_item_edited(item) the item's draw callback is again the search overlay,
\* it is the one recorded in callable_cache, and it is bound to the callback the
\* host set, which it calls first.
C14_EditedItemReinstall ==
    [][\A n \in TreeItems :
          (/\ notify_item_edited(n)
           /\ last_call = "overwritten"
           /\ CountOf(n) > 0
           /\ ~IsSearchOverlay(custom_draw_callback[n])
           /\ (n \notin DOMAIN callable_cache \/ callable_cache[n] # custom_draw_callback[n]))
          => /\ cell_mode'[n] = CELL_MODE_CUSTOM
             /\ IsSearchOverlay(custom_draw_callback'[n])
             /\ custom_draw_callback'[n] = Append(custom_draw_callback[n], "_draw_highlight_item")
             /\ n \in DOMAIN callable_cache'
             /\ callable_cache'[n] = custom_draw_callback'[n]]_vars

\* notify_item_edited has run on a counted item whose overlay the host had
\* replaced: the overlay is back, bound to the host's callback.
C14_Witness ==
    /\ last_call = "notified"
    /\ \E n \in TreeItems :
          /\ CountOf(n) > 0
          /\ custom_draw_callback[n] = Append(ExternalDrawCallback, "_draw_highlight_item")
          /\ n \in DOMAIN callable_cache
          /\ callable_cache[n] = custom_draw_callback[n]

(***************************************************************************)
(* Properties of the selection in FILTER mode (checked under SpecSelect).  *)
(***************************************************************************)
NothingMatches == \A n \in TreeItems : ~Matches(n)

\* C15: when the non-empty text matches no item, update_search in FILTER mode
\* leaves every item visible, and _select_next_match leaves the selection, the
\* folded state and the scroll position unchanged.
C15_NoMatchIsNoOp ==
    [][/\ (last_call = "active" /\ search_mode = FILTER /\ NothingMatches)
            => \A n \in TreeItems : visible[n]
       /\ (text_submitted /\ last_call = "active" /\ NothingMatches)
            => UNCHANGED <<selected, collapsed, scrolled_to>>]_vars

\* After a FILTER update that matched nothing, with an item selected below a
\* folded item, and no update repeated since (text_submitted leaves this state
\* as it is).
C15_Witness ==
    /\ last_call = "active"
    /\ search_mode = FILTER
    /\ NothingMatches
    /\ ~repeated
    /\ selected # NoItem
    /\ \E n \in ancestors(selected) : collapsed[n]
    /\ \A n \in TreeItems : visible[n]

(***************************************************************************)
(* Properties of the guard of update_search (checked under SpecGuarded).   *)
(***************************************************************************)
\* C16: update_search called with a null tree or with a null search panel
\* returns at once: tree_reference, ordered_tree_items, matching_entries,
\* number_matches, callable_cache, both flags and every item's visibility, cell
\* mode and draw callback are left as they were.
C16_NullCollaboratorAborts ==
    [][\A has_panel \in BOOLEAN, has_tree \in BOOLEAN, pressed \in BOOLEAN :
          (/\ ~has_panel \/ ~has_tree
           /\ update_search_guarded(has_panel, has_tree, TRUE, <<"b">>, pressed))
          => UNCHANGED <<treeVars, searchVars>>]_vars

\* The call failed on a tree that an earlier call had searched and filtered.
C16_Witness ==
    /\ last_call = "failed"
    /\ HasSearched
    /\ was_filtered_recently
    /\ \E n \in TreeItems : ~visible[n]

(***************************************************************************)
(* Properties of the members of TreeSearch over any sequence of updates.   *)
(***************************************************************************)
\* C17: in every state reached by update_search calls (with a text, without one,
\* the panel hidden, either mode) the count recorded for an item (absent = 0) is
\* 1 if the item is in matching_entries, else 0, plus the number of entries of
\* matching_entries among its proper descendants; when matching_entries is empty
\* no item has a positive count.
C17_CountsConsistentWithMatchSet ==
    /\ \A n \in TreeItems : CountOf(n) = Cardinality(Subtree(n) \cap MatchSet)
    /\ MatchSet = {} => \A n \in Nodes : CountOf(n) = 0

\* C18: after every update_search with a non-empty text and the panel shown,
\* every item with a positive count has the search overlay as its draw callback
\* (in cell mode CELL_MODE_CUSTOM), and that callback is the entry of
\* callable_cache for the item.
C18_OverlayCoverage ==
    (last_call = "active") =>
        \A n \in TreeItems :
            CountOf(n) > 0 =>
                /\ cell_mode[n] = CELL_MODE_CUSTOM
                /\ IsSearchOverlay(custom_draw_callback[n])
                /\ n \in DOMAIN callable_cache
                /\ callable_cache[n] = custom_draw_callback[n]

\* The update found a counted item whose overlay the host had replaced, and
\* installed the overlay again, bound to the host's callback.
C18_Witness ==
    /\ last_call = "active"
    /\ \E n \in TreeItems :
          /\ CountOf(n) > 0
          /\ custom_draw_callback[n] = Append(ExternalDrawCallback, "_draw_highlight_item")
          /\ callable_cache[n] = custom_draw_callback[n]

\* C19: an update_search that scans the tree, whatever items the host removed
\* or created since the update before it, leaves callable_cache with keys that
\* are all items of the tree, and keeps the entry of every item that had one
\* and is still in the tree.
C19_CachePruning ==
    [][last_call' = "active" =>
          /\ DOMAIN callable_cache' \subseteq TreeItems
          /\ \A n \in DOMAIN callable_cache \cap TreeItems :
                /\ n \in DOMAIN callable_cache'
                /\ \/ callable_cache'[n] = callable_cache[n]
                   \/ callable_cache'[n] = custom_draw_callback'[n]]_vars

\* The update dropped the entry of an item that has left the tree and kept the
\* entry of one that stayed.
C19_Witness ==
    /\ last_call = "active"
    /\ dropped_keys # {}
    /\ dropped_keys \cap TreeItems = {}
    /\ \E n \in DOMAIN callable_cache : CountOf(n) > 0

(***************************************************************************)
(* Properties of the selection (checked under SpecSelect).                 *)
(***************************************************************************)
\* C20: whenever _select_next_match hands an item to _select_item, afterwards
\* that one item is selected, it is a matching entry, and none of its proper
\* ancestors is collapsed; visible, cell_mode, custom_draw_callback,
\* matching_entries and number_matches are left as they were.
C20_SelectingEffect ==
    [][(/\ text_submitted
        /\ _select_next_match(ordered_tree_items, matching_entries, selected) # NoItem)
       => /\ selected' \in TreeItems
          /\ selected' \in MatchSet
          /\ \A a \in ancestors(selected') : ~collapsed'[a]
          /\ UNCHANGED <<visible, cell_mode, custom_draw_callback,
                         matching_entries, number_matches>>]_vars

\* A match two levels below the root has been selected and scrolled to.
C20_Witness ==
    /\ scrolled_to # NoItem
    /\ selected = scrolled_to
    /\ selected \in MatchSet
    /\ Cardinality(ancestors(selected)) = 2
    /\ \A a \in ancestors(selected) : ~collapsed[a]

\* C21: after an update_search in FILTER mode with a non-empty text and the
\* panel shown, every item with a positive count (every matching entry and
\* every ancestor of one, the root included) is visible.
C21_FilterKeepsMatchPaths ==
    (last_call = "active" /\ search_mode = FILTER) =>
        \A n \in TreeItems :
            (CountOf(n) > 0 \/ \E m \in Subtree(n) : m \in MatchSet) => visible[n]

\* The filter has hidden an item, and a match below the root is visible with
\* every item on its path, none of which matches itself.
C21_Witness ==
    /\ last_call = "active"
    /\ search_mode = FILTER
    /\ \E n \in TreeItems : ~visible[n]
    /\ \E m \in MatchSet :
          /\ ancestors(m) # {}
          /\ visible[m]
          /\ \A a \in ancestors(m) : a \notin MatchSet /\ CountOf(a) > 0 /\ visible[a]

(***************************************************************************)
(* Properties of repeated selection (checked under SpecCycle).             *)
(***************************************************************************)
\* C22: on an unchanged tree with k >= 1 matching entries, the first k calls of
\* _select_next_match after the update select every matching entry, each once;
\* when the selection the update found was a matching entry, the k-th call
\* selects it again.
C22_SelectionCycles ==
    \A k \in 1..NumNodes :
        (/\ last_call = "active"
         /\ Cardinality(MatchSet) = k
         /\ Len(select_log.picks) = k)
        => /\ Range(select_log.picks) = MatchSet
           /\ select_log.start \in MatchSet => select_log.picks[k] = select_log.start

\* Two or more matches, stepped through from a selected match back to it.
C22_Witness ==
    /\ last_call = "active"
    /\ Cardinality(MatchSet) >= 2
    /\ Len(select_log.picks) = Cardinality(MatchSet)
    /\ select_log.start \in MatchSet
    /\ selected = select_log.start

\* Two or more matches, stepped through from an item that does not match.
C22_WitnessFromOutside ==
    /\ last_call = "active"
    /\ Cardinality(MatchSet) >= 2
    /\ Len(select_log.picks) = Cardinality(MatchSet)
    /\ select_log.start \notin MatchSet
    /\ Range(select_log.picks) = MatchSet

(***************************************************************************)
(* Properties of the overlay chain (checked under SpecReattach).           *)
(***************************************************************************)
\* C23: the draw callback of an item never holds the search overlay more than
\* once: the callback bound inside an installed _draw_highlight_item is never
\* itself a _draw_highlight_item.
C23_NoSelfWrapping ==
    \A n \in Nodes : OverlayCount(custom_draw_callback[n]) <= 1

(***************************************************************************)
(* Properties of update_search on a tree without a root (SpecNoRoot).      *)
(***************************************************************************)
\* C24: update_search with a non-empty text and the panel shown, on a tree
\* that has no root, completes without dereferencing a null item, and leaves
\* ordered_tree_items, matching_entries and number_matches empty.
C24_RootlessUpdateCompletes ==
    (tree_root = NoItem /\ last_call \in {"active", "crashed"})
    => /\ last_call = "active"
       /\ ordered_tree_items = <<>>
       /\ matching_entries = <<>>
       /\ number_matches = <<>>

\* The call went on past the null root and left the list of a tree that no
\* longer exists, the other two containers empty.
C24_Witness ==
    /\ tree_root = NoItem
    /\ last_call = "active"
    /\ ordered_tree_items # <<>>
    /\ matching_entries = <<>>
    /\ number_matches = <<>>

====
